---------------------------- MODULE Spec2Model ----------------------------
(***************************************************************************)
(* A model of the JVM class assembler: the class builder with its constant *)
(* pool (ClassBuilder, src/src/class_builder.rs) and the method assembler  *)
(* (MethodBuilder) with label resolution and stack-map frame synthesis.    *)
(*                                                                         *)
(* Values are encoded with one type per record field, so that any two      *)
(* values of a kind can be compared:                                       *)
(*   Constant     [tag, s, n, m]      s: text, n/m: payload numbers        *)
(*   Instruction  [op, a, b]          a/b: operands (a: branch offset)     *)
(*   Intermediate [pos, waiting, label, env, instr]                        *)
(*   StackMapFrame[kind, delta, vtype]                                     *)
(*   Option<u16>  <<>> (None) or <<i>> (Some(i))                           *)
(***************************************************************************)
EXTENDS Integers, Sequences, FiniteSets, TLC

VARIABLES
    overflow_checks,        \* build profile: u16 arithmetic panics (TRUE) or wraps (FALSE)
    phase,                  \* "class" | "method" | "finished" | "panicked"
    panic,                  \* [kind, site] of the panic that aborted the build
    constants,              \* ClassBuilder.constants, without the entries `preamble` counts
    methods,                \* ClassBuilder.methods
    this_class_index,       \* ClassBuilder.this_class_index
    super_class_index,      \* ClassBuilder.super_class_index
    classfile,              \* <<>> or <<the Classfile returned by ClassBuilder::done>>
    access_flags,           \* MethodBuilder.access_flags
    name_index,             \* MethodBuilder.name_index
    descriptor_index,       \* MethodBuilder.descriptor_index
    instructions,           \* MethodBuilder.instructions
    labels,                 \* MethodBuilder.labels: <<name, env>> -> offset
    stack_index,            \* MethodBuilder.stack_index (the byte cursor)
    max_stack_depth,        \* MethodBuilder.max_stack_depth
    stack_frames,           \* MethodBuilder.stack_frames
    last_stack_frame_index, \* MethodBuilder.last_stack_frame_index
    num_locals,             \* MethodBuilder.num_locals
    stack_types,            \* MethodBuilder.stack_types
    env_num,                \* MethodBuilder.env_num
    env_count,              \* MethodBuilder.env_count
    define_log,             \* history: the define_* calls of the last operation
    first_define,           \* history: request -> index its first define_* call returned
    label_log,              \* history: the cursor at each label() call of the open method
    ret,                    \* history: value returned by the last new_env / set_new_env
    preamble                \* what the run starts with: [instr, labels, envs] already
                            \* spent (instructions, label() and new_env calls),
                            \* and `dropped` pool entries left after entry `at` by
                            \* assemblers that were dropped unfinalized

cbVars == <<constants, methods, this_class_index, super_class_index, classfile>>
hdrVars == <<access_flags, name_index, descriptor_index, max_stack_depth>>
envVars == <<env_num, env_count, ret>>
codeVars == <<instructions, stack_index, num_locals, stack_types>>
frameVars == <<labels, stack_frames, last_stack_frame_index, label_log>>
poolHist == <<define_log, first_define>>
fixedVars == <<overflow_checks, preamble>>
vars == <<fixedVars, phase, panic, cbVars, hdrVars, envVars, codeVars,
          frameVars, poolHist>>

---------------------------------------------------------------------------
(* Bounds of the model and program constants.                              *)

MaxInstr == 3      \* instructions emitted over the whole class build
MaxLabels == 2     \* label() calls over the whole class build
MaxEnvs == 1       \* new_env / set_new_env calls per method
MaxMethods == 2    \* methods opened per class

U16 == 65536                \* 2^16: the width of u16 arithmetic
U8MAX == 255                \* ::std::u8::MAX
ACC_PUBLIC == 1
ACC_STATIC == 8

LabelNames == {"L", "M"}
ClassNames == {"Foo", "java/lang/Object"}
MethodNames == {"add"}
JavaTypes == {"Int", "Void"}
ArgLists == {<<"Int", "Int">>}

None == <<>>
Some(i) == <<i>>

Min(S) == CHOOSE x \in S : \A y \in S : x <= y

---------------------------------------------------------------------------
(* Descriptor formatting (the java_type_signatures collaborator).          *)

RECURSIVE ConcatAll(_)
ConcatAll(ss) == IF ss = <<>> THEN "" ELSE Head(ss) \o ConcatAll(Tail(ss))

field_descriptor(t) == CASE t = "Int" -> "I" [] t = "Void" -> "V"

method_signature(argument_types, return_type) ==
    "(" \o ConcatAll([i \in 1..Len(argument_types) |-> field_descriptor(argument_types[i])])
        \o ")" \o field_descriptor(return_type)

---------------------------------------------------------------------------
(* Constants and the constant pool.                                        *)

Utf8(str) == [tag |-> "Utf8", s |-> str, n |-> 0, m |-> 0]
Integer(v) == [tag |-> "Integer", s |-> "", n |-> v, m |-> 0]
Float(f) == [tag |-> "Float", s |-> "", n |-> f.mag, m |-> f.sign]
Class(i) == [tag |-> "Class", s |-> "", n |-> i, m |-> 0]
String(i) == [tag |-> "String", s |-> "", n |-> i, m |-> 0]
Fieldref(c, nt) == [tag |-> "Fieldref", s |-> "", n |-> c, m |-> nt]
Methodref(c, nt) == [tag |-> "Methodref", s |-> "", n |-> c, m |-> nt]
NameAndType(nm, d) == [tag |-> "NameAndType", s |-> "", n |-> nm, m |-> d]

\* An f32 is its IEEE-754 bit pattern: the sign bit and the 31 bits below it.
F32(sign, mag) == [sign |-> sign, mag |-> mag]
F32_INF_BITS == 2139095040               \* 0x7f800000: exponent all ones
F32_NAN == F32(0, F32_INF_BITS + 4194304) \* 0x7fc00000
F32_POS_ZERO == F32(0, 0)                \* 0x00000000
F32_NEG_ZERO == F32(1, 0)                \* 0x80000000

IsNaN(f) == f.mag > F32_INF_BITS
IsZero(f) == f.mag = 0

\* f32's PartialEq: IEEE comparison, so NaN equals nothing and +0 equals -0.
f32_eq(x, y) == /\ ~IsNaN(x)
                /\ ~IsNaN(y)
                /\ (x = y \/ (IsZero(x) /\ IsZero(y)))

\* #[derive(PartialEq)] on Constant: same variant, equal payloads.
ConstantEq(c, d) ==
    /\ c.tag = d.tag
    /\ IF c.tag = "Float" THEN f32_eq(F32(c.m, c.n), F32(d.m, d.n))
       ELSE c.s = d.s /\ c.n = d.n /\ c.m = d.m

(* A pool computation threads P = [constants, ok, ret, log, first]: the     *)
(* pool, whether the call chain is still running (no panic), the index     *)
(* last returned, and the history of define_* calls.                       *)
PoolStart(cs, fd) == [constants |-> cs, ok |-> TRUE, ret |-> 0, log |-> <<>>, first |-> fd]

\* F applied to the value of v, which is computed once.
Bind(v, F(_)) == CHOOSE y \in {F(x) : x \in {v}} : TRUE

\* The number of `i += 1` steps the scan makes before it returns or ends.
ScanSteps(cs, hits) == IF hits = {} THEN Len(cs) ELSE Min(hits) - 1

\* Mutant: a new constant is put in front of the pool.
PushConstantScan_front(P, constant, hits) ==
    IF hits # {}
    THEN [P EXCEPT !.ret = Min(hits) % U16]
    ELSE [P EXCEPT !.constants = <<constant>> \o P.constants, !.ret = 1]

\* Mutant: a new constant is pushed twice.
PushConstantScan_twice(P, constant, hits) ==
    IF hits # {}
    THEN [P EXCEPT !.ret = Min(hits) % U16]
    ELSE [P EXCEPT !.constants = P.constants \o <<constant, constant>>,
                   !.ret = (Len(P.constants) + 2) % U16]

PushConstantScan(P, constant, hits) ==
    IF overflow_checks /\ ScanSteps(P.constants, hits) >= U16 - 1
    THEN [P EXCEPT !.ok = FALSE]                 \* `i += 1` overflows
    ELSE IF hits # {}
         THEN [P EXCEPT !.ret = Min(hits) % U16]
         ELSE [P EXCEPT !.constants = Append(P.constants, constant),
                        !.ret = (Len(P.constants) + 1) % U16]

push_constant(P, constant) ==
    IF ~P.ok THEN P
    ELSE Bind({i \in 1..Len(P.constants) : ConstantEq(constant, P.constants[i])},
              LAMBDA hits : PushConstantScan(P, constant, hits))

NoIndex == 0 - 1   \* no index: the request was never made before

Request(kind, strs, num) == [kind |-> kind, s |-> strs, n |-> num]

\* Records one define_* call: what was asked, what it returned, how much the
\* pool grew, and the index the first call with the same request returned
\* (NoIndex when this is the first).
LogEntry(P0, req, P1) ==
    IF ~P1.ok THEN P1
    ELSE LET before == IF req \in DOMAIN P1.first THEN P1.first[req] ELSE NoIndex
             entry == [req |-> req, idx |-> P1.ret,
                       grew |-> Len(P1.constants) - Len(P0.constants),
                       first |-> before]
         IN [P1 EXCEPT !.log = Append(P1.log, entry),
                       !.first = IF before # NoIndex THEN P1.first
                                 ELSE [r \in DOMAIN P1.first \cup {req} |->
                                          IF r = req THEN P1.ret ELSE P1.first[r]]]

Logged(P0, req, result) == Bind(result, LAMBDA P1 : LogEntry(P0, req, P1))

define_integer(P, v) ==
    Logged(P, Request("integer", <<>>, v), push_constant(P, Integer(v)))

define_float(P, f) ==
    Logged(P, Request("float", <<IF f.sign = 1 THEN "-" ELSE "+">>, f.mag),
           push_constant(P, Float(f)))

define_utf8(P, str) ==
    Logged(P, Request("utf8", <<str>>, 0), push_constant(P, Utf8(str)))

define_class(P, class) ==
    Bind(define_utf8(P, class), LAMBDA P1 :
        Logged(P, Request("class", <<class>>, 0), push_constant(P1, Class(P1.ret))))

define_string(P, value) ==
    Bind(define_utf8(P, value), LAMBDA P1 :
        Logged(P, Request("string", <<value>>, 0), push_constant(P1, String(P1.ret))))

define_name_and_type(P, name, descriptor) ==
    Bind(define_utf8(P, name), LAMBDA P1 :
        Bind(define_utf8(P1, descriptor), LAMBDA P2 :
            Logged(P, Request("name_and_type", <<name, descriptor>>, 0),
                   push_constant(P2, NameAndType(P1.ret, P2.ret)))))

define_fieldref(P, class, name, field_type) ==
    Bind(define_class(P, class), LAMBDA P1 :
        Bind(define_name_and_type(P1, name, field_descriptor(field_type)), LAMBDA P2 :
            Logged(P, Request("fieldref", <<class, name, field_descriptor(field_type)>>, 0),
                   push_constant(P2, Fieldref(P1.ret, P2.ret)))))

define_methodref(P, class, name, argument_types, return_type) ==
    Bind(define_class(P, class), LAMBDA P1 :
        Bind(define_name_and_type(P1, name, method_signature(argument_types, return_type)),
             LAMBDA P2 :
                Logged(P, Request("methodref",
                                  <<class, name, method_signature(argument_types, return_type)>>,
                                  0),
                       push_constant(P2, Methodref(P1.ret, P2.ret)))))

(* The entries of dropped assemblers.  After ClassBuilder::new, define_method *)
(* calls with the distinct names m1, m3, m4, ... and the signature ()V,     *)
(* whose assemblers were dropped unfinalized, each left the Utf8 of its     *)
(* name in the pool, the first also the Utf8 of the signature.  None of     *)
(* these names is requested again, so the state holds their number          *)
(* (preamble.dropped) and the index they follow (preamble.at), not the      *)
(* entries.  The history of define_* calls starts after them.               *)

FillerName(i) == "m" \o ToString(i)

Filler(n) ==
    [i \in 1..n |-> IF i = 2 THEN Utf8(method_signature(<<>>, "Void"))
                    ELSE Utf8(FillerName(i))]

\* ClassBuilder.constants: the entries held in the state, with the entries
\* of the dropped assemblers at their place.
Expand(cs) ==
    IF preamble.dropped = 0 THEN cs
    ELSE SubSeq(cs, 1, preamble.at) \o Filler(preamble.dropped)
         \o SubSeq(cs, preamble.at + 1, Len(cs))

Pool == Expand(constants)

\* The entries of a pool that the state holds.
Held(cs) ==
    IF preamble.dropped = 0 THEN cs
    ELSE SubSeq(cs, 1, preamble.at)
         \o SubSeq(cs, preamble.at + preamble.dropped + 1, Len(cs))

---------------------------------------------------------------------------
(* Instructions (src/src/classfile.rs).                                    *)

Instr(op, a, b) == [op |-> op, a |-> a, b |-> b]

ZeroBranchOps == {"IfEq", "IfNe", "IfLt", "IfGe", "IfGt", "IfLe"}
CmpBranchOps == {"IfIcmpEq", "IfIcmpNe", "IfIcmpLt", "IfIcmpGe", "IfIcmpGt", "IfIcmpLe"}
BranchOps == ZeroBranchOps \cup CmpBranchOps \cup {"Goto"}

OneByteOps == {"Fload0", "Fload1", "Fload2", "Fload3", "Fstore0", "Fstore1",
               "Fstore2", "Fstore3", "Fconst0", "Fconst1", "Fconst2", "FReturn",
               "I2C", "IconstM1", "Iconst0", "Iconst1", "Iconst2", "Iconst3",
               "Iconst4", "Iconst5", "Istore0", "Istore1", "Istore2", "Istore3",
               "Iload0", "Iload1", "Iload2", "Iload3", "Aload0", "Aload1",
               "Aload2", "Aload3", "Aaload", "Iadd", "Isub", "Imul", "Idiv",
               "IReturn", "Return", "ArrayLength"}
TwoByteOps == {"Fload", "Fstore", "Istore", "Bipush", "Iload", "LoadConstant"}
ThreeByteOps == BranchOps \cup {"Sipush", "GetStatic", "InvokeVirtual",
                                "InvokeSpecial", "InvokeStatic"}

\* Variants class_builder.rs emits that the Instruction enum of classfile.rs
\* does not list: their size is the opcode byte plus the operand bytes the
\* variant carries.
UnlistedSize(op) ==
    CASE op \in {"Astore0", "Astore1", "Astore2", "Astore3"} -> 1
      [] op = "Astore" -> 2
      [] op = "New" -> 3

\* Instruction::size: fixed by the variant alone.
size(instruction) ==
    CASE instruction.op \in OneByteOps -> 1
      [] instruction.op \in TwoByteOps -> 2
      [] instruction.op \in ThreeByteOps -> 3
      [] OTHER -> UnlistedSize(instruction.op)

Ready(pos, instruction) ==
    [pos |-> pos, waiting |-> FALSE, label |-> "", env |-> 0, instr |-> instruction]
Waiting(pos, label, env, instruction) ==
    [pos |-> pos, waiting |-> TRUE, label |-> label, env |-> env, instr |-> instruction]

\* fill_offset: the 13 branch variants take the offset; any other panics.
CanFill(instruction) == instruction.op \in BranchOps
\* Mutant: every rewritten branch comes out as a goto.
fill_offset_goto(instruction, offset) == [instruction EXCEPT !.op = "Goto", !.a = offset]

fill_offset(instruction, offset) == [instruction EXCEPT !.a = offset]

---------------------------------------------------------------------------
(* Stack-map frames.                                                       *)

Frame(kind, delta, vtype) == [kind |-> kind, delta |-> delta, vtype |-> vtype]
SameFrame(d) == Frame("SameFrame", d, "")
SameFrameExtended(d) == Frame("SameFrameExtended", d, "")
SameLocals1StackItemFrame(d, t) == Frame("SameLocals1StackItemFrame", d, t)
SameLocals1StackItemFrameExtended(d, t) == Frame("SameLocals1StackItemFrameExtended", d, t)

\* label(): `self.stack_index - i - 1` underflows when a frame was already
\* placed at this cursor.
FrameOffsetUnderflows(last, cursor) == last # None /\ cursor - last[1] - 1 < 0

\* Mutant: the plain byte distance, without the `- 1`.
FrameOffset_distance(last, cursor) ==
    IF last = None THEN cursor ELSE (cursor - last[1]) % U16

FrameOffset(last, cursor) ==
    IF last = None THEN cursor ELSE (cursor - last[1] - 1) % U16

\* Mutant: the compact forms end one short, at 254.
SelectFrame_early(offset, types) ==
    IF types = <<>>
    THEN IF offset >= U8MAX THEN SameFrameExtended(offset) ELSE SameFrame(offset)
    ELSE IF offset >= U8MAX
         THEN SameLocals1StackItemFrameExtended(offset, types[Len(types)])
         ELSE SameLocals1StackItemFrame(offset, types[Len(types)])

\* Mutant: the tracked types are ignored.
SelectFrame_untyped(offset, types) ==
    IF offset > U8MAX THEN SameFrameExtended(offset) ELSE SameFrame(offset)

SelectFrame(offset, types) ==
    IF types = <<>>
    THEN IF offset > U8MAX THEN SameFrameExtended(offset) ELSE SameFrame(offset)
    ELSE LET last_type == types[Len(types)]
         IN IF offset > U8MAX
            THEN SameLocals1StackItemFrameExtended(offset, last_type)
            ELSE SameLocals1StackItemFrame(offset, last_type)

---------------------------------------------------------------------------
(* Attributes, methods and the class file.                                 *)

\* Mutant: the attribute drops the last frame it is given.
StackMapTable_short(idx, frames) ==
    [kind |-> "StackMapTable", name |-> idx,
     frames |-> SubSeq(frames, 1, Len(frames) - 1)]

StackMapTable(idx, frames) == [kind |-> "StackMapTable", name |-> idx, frames |-> frames]
\* Mutant: the attribute reports one stack slot per instruction.
Code_counted(idx, max_stack, max_locals, code, exceptions, attributes) ==
    [kind |-> "Code", name |-> idx, max_stack |-> Len(code), max_locals |-> max_locals,
     code |-> code, exception_table |-> exceptions, attributes |-> attributes]

Code(idx, max_stack, max_locals, code, exceptions, attributes) ==
    [kind |-> "Code", name |-> idx, max_stack |-> max_stack, max_locals |-> max_locals,
     code |-> code, exception_table |-> exceptions, attributes |-> attributes]
\* Mutant: the name and descriptor references change places.
Method_swapped(flags, name, descriptor, attributes) ==
    [access_flags |-> flags, name_index |-> descriptor, descriptor_index |-> name,
     attributes |-> attributes]

Method(flags, name, descriptor, attributes) ==
    [access_flags |-> flags, name_index |-> name, descriptor_index |-> descriptor,
     attributes |-> attributes]

---------------------------------------------------------------------------
(* The state after ClassBuilder::new, with no method assembler open.       *)

NoLabels == <<>>    \* the empty label table

RECURSIVE CodeLength(_)
CodeLength(ms) ==
    IF ms = <<>> THEN 0
    ELSE Len(Head(ms).attributes[1].code) + CodeLength(Tail(ms))

RECURSIVE FrameCount(_)
FrameCount(ms) ==
    IF ms = <<>> THEN 0
    ELSE Len(Head(ms).attributes[1].attributes[1].frames) + FrameCount(Tail(ms))

\* Instructions emitted and labels declared since the run started.
TotalInstr == Len(instructions) + CodeLength(methods) - preamble.instr
TotalLabels == Len(stack_frames) + FrameCount(methods) - preamble.labels

\* The fields of a method assembler that does not exist (none is open).
NoMethodBuilder ==
    /\ access_flags = 0 /\ name_index = 0 /\ descriptor_index = 0
    /\ max_stack_depth = 0
    /\ instructions = <<>> /\ stack_index = 0 /\ num_locals = 0 /\ stack_types = <<>>
    /\ labels = NoLabels /\ stack_frames = <<>> /\ last_stack_frame_index = None
    /\ label_log = <<>>
    /\ env_num = 0 /\ env_count = 0 /\ ret = 0

ClassBuilder_new(this_class, super_class) ==
    \E P1 \in {define_class(PoolStart(<<>>, <<>>), this_class)} :
    \E P2 \in {define_class(P1, super_class)} :
       /\ constants = P2.constants
       /\ this_class_index = P1.ret
       /\ super_class_index = P2.ret
       /\ methods = <<>>
       /\ classfile = None
       /\ define_log = P2.log
       /\ first_define = P2.first

NoPanic == [kind |-> "", site |-> ""]

Init ==
    /\ overflow_checks \in BOOLEAN
    /\ preamble = [instr |-> 0, labels |-> 0, at |-> 0, dropped |-> 0, envs |-> 0]
    /\ phase = "class"
    /\ panic = NoPanic
    /\ ClassBuilder_new("Foo", "java/lang/Object")
    /\ NoMethodBuilder

\* A panic: its kind and where it was raised (the operation, or the helper
\* an emitting operation called).
Abort(kind, site) == phase' = "panicked" /\ panic' = [kind |-> kind, site |-> site]

---------------------------------------------------------------------------
(* ClassBuilder::define_method, MethodBuilder::new.                        *)

define_method(flags, name, argument_types, return_type) ==
    /\ phase = "class"
    /\ Len(methods) < MaxMethods
    /\ \E P1 \in {define_utf8(PoolStart(Pool, first_define), name)} :
       \E P2 \in {define_utf8(P1, method_signature(argument_types, return_type))} :
          /\ constants' = Held(P2.constants)
          /\ define_log' = P2.log
          /\ first_define' = P2.first
          /\ IF ~P2.ok
             THEN /\ Abort("ArithmeticOverflow", "define_method")
                  /\ UNCHANGED <<hdrVars, codeVars>>
             ELSE /\ phase' = "method"
                  /\ access_flags' = flags
                  /\ name_index' = P1.ret
                  /\ descriptor_index' = P2.ret
                  /\ num_locals' = Len(argument_types) % U16
                  /\ UNCHANGED <<panic, max_stack_depth, instructions, stack_index,
                                 stack_types>>
    /\ UNCHANGED <<fixedVars, methods, this_class_index, super_class_index,
                   classfile, envVars, frameVars>>

---------------------------------------------------------------------------
(* Environments.                                                           *)

\* new_env / set_new_env calls made on the open assembler in this run.
EnvCalls == (env_count - preamble.envs) % U16

\* `self.env_count += 1` in a build that checks it.
EnvCountOverflows == overflow_checks /\ env_count + 1 >= U16

new_env ==
    /\ phase = "method"
    /\ EnvCalls < MaxEnvs
    /\ IF EnvCountOverflows
       THEN Abort("ArithmeticOverflow", "new_env") /\ UNCHANGED <<env_count, ret>>
       ELSE /\ env_count' = (env_count + 1) % U16
            /\ ret' = env_count'
            /\ UNCHANGED <<phase, panic>>
    /\ UNCHANGED <<fixedVars, cbVars, hdrVars, env_num, codeVars, frameVars, poolHist>>

set_env(n) ==
    /\ phase = "method"
    /\ env_num' = n
    /\ UNCHANGED <<fixedVars, phase, panic, cbVars, hdrVars, env_count, ret,
                   codeVars, frameVars, poolHist>>

set_new_env ==
    /\ phase = "method"
    /\ EnvCalls < MaxEnvs
    /\ IF EnvCountOverflows
       THEN Abort("ArithmeticOverflow", "new_env") /\ UNCHANGED envVars
       ELSE /\ env_count' = (env_count + 1) % U16
            /\ env_num' = env_count'
            /\ ret' = env_num'
            /\ UNCHANGED <<phase, panic>>
    /\ UNCHANGED <<fixedVars, cbVars, hdrVars, codeVars, frameVars, poolHist>>

---------------------------------------------------------------------------
(* Emitting instructions.                                                  *)

CanEmit == phase = "method" /\ TotalInstr < MaxInstr

\* `self.stack_index += instruction.size() as u16` in a build that checks it.
CursorOverflows(instruction) ==
    overflow_checks /\ stack_index + size(instruction) >= U16

\* Mutant: the cursor advances by one byte whatever the instruction.
push_instruction_unit(instruction) ==
    /\ stack_index' = (stack_index + 1) % U16
    /\ instructions' = Append(instructions, Ready(stack_index, instruction))

push_instruction(instruction) ==
    /\ stack_index' = (stack_index + size(instruction)) % U16
    /\ instructions' = Append(instructions, Ready(stack_index, instruction))

delay_instruction(label_name, instruction) ==
    /\ stack_index' = (stack_index + size(instruction)) % U16
    /\ instructions' = Append(instructions,
                              Waiting(stack_index, label_name, env_num, instruction))

increase_locals(n) == (n + 1) % U16

\* The stack-depth hooks (increase_stack_depth, decrease_stack_depth,
\* decrease_stack_depth_by) have empty bodies: they change nothing.

\* An operation that pushes one Ready instruction, then sets the tracked
\* types and the locals counter.
EmitReady(instruction, types1, locals1) ==
    /\ CanEmit
    /\ IF CursorOverflows(instruction)
       THEN Abort("ArithmeticOverflow", "push_instruction") /\ UNCHANGED codeVars
       ELSE /\ push_instruction(instruction)
            /\ stack_types' = types1
            /\ num_locals' = locals1
            /\ UNCHANGED <<phase, panic>>
    /\ UNCHANGED <<fixedVars, cbVars, hdrVars, envVars, frameVars, poolHist>>

\* A branch operation: one Waiting instruction with placeholder offset 0.
EmitWaiting(label_name, instruction) ==
    /\ CanEmit
    /\ IF CursorOverflows(instruction)
       THEN Abort("ArithmeticOverflow", "delay_instruction") /\ UNCHANGED codeVars
       ELSE /\ delay_instruction(label_name, instruction)
            /\ UNCHANGED <<phase, panic, stack_types, num_locals>>
    /\ UNCHANGED <<fixedVars, cbVars, hdrVars, envVars, frameVars, poolHist>>

iconst0 == EmitReady(Instr("Iconst0", 0, 0), Append(stack_types, "Integer"), num_locals)

bipush(value) ==
    EmitReady(Instr("Bipush", value % 256, 0), Append(stack_types, "Integer"), num_locals)

sipush(val0, val1) ==
    EmitReady(Instr("Sipush", val0 % 256, val1 % 256), Append(stack_types, "Integer"),
              num_locals)

iload0 == EmitReady(Instr("Iload0", 0, 0), Append(stack_types, "Integer"), num_locals)

iload(reg) == EmitReady(Instr("Iload", reg, 0), Append(stack_types, "Integer"), num_locals)

ireturn == EmitReady(Instr("IReturn", 0, 0), stack_types, num_locals)

\* Mutant: the consuming operation drops the last recorded type.
iadd_popping ==
    EmitReady(Instr("Iadd", 0, 0), SubSeq(stack_types, 1, Len(stack_types) - 1),
              num_locals)

iadd == EmitReady(Instr("Iadd", 0, 0), stack_types, num_locals)

istore(idx) == EmitReady(Instr("Istore", idx, 0), stack_types, increase_locals(num_locals))

istore0 == EmitReady(Instr("Istore0", 0, 0), stack_types, increase_locals(num_locals))

fstore0 == EmitReady(Instr("Fstore0", 0, 0), stack_types, increase_locals(num_locals))

fstore(idx) == EmitReady(Instr("Fstore", idx, 0), stack_types, increase_locals(num_locals))

\* The reference stores call increase_stack_depth, not increase_locals.
astore0 == EmitReady(Instr("Astore0", 0, 0), stack_types, num_locals)

astore(reg) == EmitReady(Instr("Astore", reg, 0), stack_types, num_locals)

ifeq(label_name) == EmitWaiting(label_name, Instr("IfEq", 0, 0))

if_icmp_eq(label_name) == EmitWaiting(label_name, Instr("IfIcmpEq", 0, 0))

\* Mutant: the branch delays an instruction that has no offset operand.
goto_unfillable(label_name) == EmitWaiting(label_name, Instr("Return", 0, 0))

goto(label_name) == EmitWaiting(label_name, Instr("Goto", 0, 0))

---------------------------------------------------------------------------
(* Operations that intern a constant and then emit.                        *)

\* An operation that interned through P and pushes a Ready instruction; a
\* load-constant operation panics when the index does not fit in u8.
EmitInterned(P, instruction, narrow, types1) ==
    /\ CanEmit
    /\ constants' = Held(P.constants)
    /\ define_log' = P.log
    /\ first_define' = P.first
    /\ IF ~P.ok
       THEN Abort("ArithmeticOverflow", "push_constant") /\ UNCHANGED codeVars
       ELSE IF narrow /\ P.ret > U8MAX
       THEN Abort("ConstantIndexTooHigh", "load_constant") /\ UNCHANGED codeVars
       ELSE IF CursorOverflows(instruction)
       THEN Abort("ArithmeticOverflow", "push_instruction") /\ UNCHANGED codeVars
       ELSE /\ push_instruction(instruction)
            /\ stack_types' = types1
            /\ UNCHANGED <<phase, panic, num_locals>>
    /\ UNCHANGED <<fixedVars, methods, this_class_index, super_class_index,
                   classfile, hdrVars, envVars, frameVars>>

load_constant(value) ==
    \E P \in {define_string(PoolStart(Pool, first_define), value)} :
       EmitInterned(P, Instr("LoadConstant", P.ret % 256, 0), TRUE, stack_types)

\* Mutant: the index is truncated to 8 bits without the check.
load_constant_integer_unchecked(value) ==
    \E P \in {define_integer(PoolStart(Pool, first_define), value)} :
       EmitInterned(P, Instr("LoadConstant", P.ret % 256, 0), FALSE,
                    Append(stack_types, "Integer"))

load_constant_integer(value) ==
    \E P \in {define_integer(PoolStart(Pool, first_define), value)} :
       EmitInterned(P, Instr("LoadConstant", P.ret % 256, 0), TRUE,
                    Append(stack_types, "Integer"))

load_constant_float(value) ==
    \E P \in {define_float(PoolStart(Pool, first_define), value)} :
       EmitInterned(P, Instr("LoadConstant", P.ret % 256, 0), TRUE, stack_types)

get_static(class, name, argument_type) ==
    \E P \in {define_fieldref(PoolStart(Pool, first_define), class, name,
                              argument_type)} :
       EmitInterned(P, Instr("GetStatic", P.ret, 0), FALSE, stack_types)

invoke_static(class, name, argument_types, return_type) ==
    \E P \in {define_methodref(PoolStart(Pool, first_define), class, name,
                               argument_types, return_type)} :
       EmitInterned(P, Instr("InvokeStatic", P.ret, 0), FALSE, stack_types)

\* `x | 0xff` on u16: the low eight bits are set.
BitOrFF(x) == x - (x % 256) + 255

\* nyew: the index is split into `(idx >> 8) as u8` and `(idx | 0xff) as u8`.
nyew(class_name) ==
    \E P \in {define_class(PoolStart(Pool, first_define), class_name)} :
       EmitInterned(P, Instr("New", (P.ret \div 256) % 256, BitOrFF(P.ret) % 256), FALSE,
                    stack_types)

---------------------------------------------------------------------------
(* Labels and frames.                                                      *)

LabelKey(name, env) == <<name, env>>

\* Mutant: a key that is already in the table keeps its value.
Insert_first(table, key, value) ==
    [k \in DOMAIN table \cup {key} |-> IF k \in DOMAIN table THEN table[k] ELSE value]

Insert(table, key, value) ==
    [k \in DOMAIN table \cup {key} |-> IF k = key THEN value ELSE table[k]]

label(name) ==
    /\ phase = "method"
    /\ TotalLabels < MaxLabels
    /\ labels' = Insert(labels, LabelKey(name, env_num), stack_index)
    /\ IF overflow_checks /\ FrameOffsetUnderflows(last_stack_frame_index, stack_index)
       THEN /\ Abort("ArithmeticOverflow", "label")
            /\ UNCHANGED <<stack_frames, last_stack_frame_index, label_log>>
       ELSE /\ stack_frames' =
                  Append(stack_frames,
                         SelectFrame(FrameOffset(last_stack_frame_index, stack_index),
                                     stack_types))
            /\ last_stack_frame_index' = Some(stack_index)
            /\ label_log' = Append(label_log, stack_index)
            /\ UNCHANGED <<phase, panic>>
    /\ UNCHANGED <<fixedVars, cbVars, hdrVars, envVars, codeVars, poolHist>>

---------------------------------------------------------------------------
(* MethodBuilder::done.                                                    *)

\* Mutant: the label's absolute position, not the distance.
BranchDelta_absolute(label_pos, pos) == label_pos % U16

\* `label_pos - pos` on u16.
BranchDelta(label_pos, pos) == (label_pos - pos) % U16

\* What resolving one intermediate instruction does: "" when it yields an
\* instruction, else the panic.
ResolveOutcome(ir) ==
    IF ~ir.waiting THEN ""
    ELSE IF LabelKey(ir.label, ir.env) \notin DOMAIN labels THEN "UnresolvedLabel"
    ELSE IF overflow_checks /\ labels[LabelKey(ir.label, ir.env)] < ir.pos
         THEN "ArithmeticOverflow"
    ELSE IF ~CanFill(ir.instr) THEN "UnpatchableInstructionShape"
    ELSE ""

Resolve(ir) ==
    IF ~ir.waiting THEN ir.instr
    ELSE fill_offset(ir.instr, BranchDelta(labels[LabelKey(ir.label, ir.env)], ir.pos))

\* The iterator is consumed in order, so the first instruction that fails
\* decides the panic.
FailingInstructions == {i \in 1..Len(instructions) : ResolveOutcome(instructions[i]) # ""}

ResetMethodBuilder ==
    /\ access_flags' = 0 /\ name_index' = 0 /\ descriptor_index' = 0
    /\ max_stack_depth' = 0
    /\ instructions' = <<>> /\ stack_index' = 0 /\ num_locals' = 0 /\ stack_types' = <<>>
    /\ labels' = NoLabels /\ stack_frames' = <<>> /\ last_stack_frame_index' = None
    /\ label_log' = <<>>
    /\ env_num' = 0 /\ env_count' = 0 /\ ret' = 0

done ==
    /\ phase = "method"
    /\ IF FailingInstructions # {}
       THEN /\ Abort(ResolveOutcome(instructions[Min(FailingInstructions)]), "done")
            /\ UNCHANGED <<cbVars, hdrVars, envVars, codeVars, frameVars, poolHist>>
       ELSE \E P1 \in {define_utf8(PoolStart(Pool, first_define), "StackMapTable")} :
            \E P2 \in {define_utf8(P1, "Code")} :
            LET real_instructions ==
                    [i \in 1..Len(instructions) |-> Resolve(instructions[i])]
                stack_map_table == StackMapTable(P1.ret, stack_frames)
                code == Code(P2.ret, max_stack_depth, num_locals, real_instructions,
                             <<>>, <<stack_map_table>>)
                method == Method(access_flags, name_index, descriptor_index, <<code>>)
            IN /\ constants' = Held(P2.constants)
               /\ define_log' = P2.log
               /\ first_define' = P2.first
               /\ IF ~P2.ok
                  THEN /\ Abort("ArithmeticOverflow", "done")
                       /\ UNCHANGED <<methods, hdrVars, envVars, codeVars, frameVars>>
                  ELSE /\ methods' = Append(methods, method)
                       /\ phase' = "class"
                       /\ ResetMethodBuilder
                       /\ UNCHANGED panic
               /\ UNCHANGED <<this_class_index, super_class_index, classfile>>
    /\ UNCHANGED fixedVars

---------------------------------------------------------------------------
(* ClassBuilder::done.                                                     *)

Classfile_new(cs, flags, this_class, super_class, ms) ==
    [constant_pool |-> cs, access_flags |-> flags, this_class |-> this_class,
     super_class |-> super_class, methods |-> ms]

\* The method assembler goes out of scope without done(): its exclusive
\* borrow of the class builder ends, the pool keeps what it interned.
drop ==
    /\ phase = "method"
    /\ phase' = "class"
    /\ ResetMethodBuilder
    /\ UNCHANGED <<fixedVars, panic, cbVars, poolHist>>

\* Mutant: the class builder is finalized while an assembler holds it.
ClassBuilder_done_borrowed ==
    /\ phase \in {"class", "method"}
    /\ phase' = "finished"
    /\ classfile' = Some(Classfile_new(Pool, ACC_PUBLIC, this_class_index,
                                       super_class_index, methods))
    /\ UNCHANGED <<fixedVars, panic, constants, methods, this_class_index,
                   super_class_index, hdrVars, envVars, codeVars, frameVars, poolHist>>

ClassBuilder_done ==
    /\ phase = "class"
    /\ phase' = "finished"
    /\ classfile' = Some(Classfile_new(Pool, ACC_PUBLIC, this_class_index,
                                       super_class_index, methods))
    /\ UNCHANGED <<fixedVars, panic, constants, methods, this_class_index,
                   super_class_index, hdrVars, envVars, codeVars, frameVars, poolHist>>

---------------------------------------------------------------------------
(* Inputs and the next-state relation.                                     *)

IntValues == {7}
FloatValues == {F32_NAN, F32_POS_ZERO, F32_NEG_ZERO}
StringValues == {"hi"}
ByteValues == {5}
SlotValues == {0}

OpenMethod == \E args \in ArgLists : define_method(ACC_STATIC, "add", args, "Int")

\* Environment operations.
EnvOps ==
    \/ new_env
    \/ \E n \in 0..MaxEnvs : set_env(n)
    \/ set_new_env

\* Instructions that carry no pool index and no label.
PlainOps ==
    \/ iconst0
    \/ \E v \in ByteValues : bipush(v)
    \/ iadd
    \/ \E idx \in SlotValues : istore(idx)

\* Stores to locals, fixed-slot and explicit-index forms.
StoreOps ==
    \/ istore0
    \/ \E idx \in SlotValues : istore(idx)
    \/ fstore0
    \/ \E idx \in SlotValues : fstore(idx)
    \/ astore0
    \/ \E reg \in SlotValues : astore(reg)

\* Branches.
Branches ==
    \/ \E l \in LabelNames : ifeq(l)
    \/ \E l \in LabelNames : if_icmp_eq(l)
    \/ \E l \in LabelNames : goto(l)

DeclareLabel == \E l \in LabelNames : label(l)

\* Instructions that intern constants.
PoolOps ==
    \/ \E v \in StringValues : load_constant(v)
    \/ \E v \in IntValues : load_constant_integer(v)
    \/ \E v \in FloatValues : load_constant_float(v)
    \/ get_static("Foo", "f", "Int")
    \/ invoke_static("Foo", "add", <<"Int", "Int">>, "Int")

Finish == done \/ ClassBuilder_done

Next ==
    \/ OpenMethod \/ EnvOps \/ PlainOps \/ StoreOps \/ Branches \/ DeclareLabel
    \/ PoolOps \/ Finish

\* Labels, environments and branch resolution.
NextAsm ==
    \/ (methods = <<>> /\ OpenMethod)
    \/ EnvOps
    \/ iconst0
    \/ \E l \in LabelNames : if_icmp_eq(l)
    \/ \E l \in LabelNames : goto(l)
    \/ DeclareLabel
    \/ Finish

\* Cursor arithmetic and frame synthesis.
NextFrame ==
    \/ OpenMethod
    \/ PlainOps
    \/ \E l \in LabelNames : goto(l)
    \/ DeclareLabel
    \/ Finish

\* The constant pool: every operation that interns.
NextPool == OpenMethod \/ PoolOps \/ iadd \/ Finish

\* The locals counter.
NextLocals == OpenMethod \/ StoreOps \/ iconst0 \/ Finish

Spec == Init /\ [][Next]_vars

SpecLocals == Init /\ [][NextLocals]_vars

SpecAsm == Init /\ [][NextAsm]_vars

SpecFrame == Init /\ [][NextFrame]_vars

SpecPool == Init /\ [][NextPool]_vars

\* The recorded verification types: the operations that produce an integer,
\* the operations that consume operands, and label declarations.
NextTypes ==
    \/ (methods = <<>> /\ OpenMethod)
    \/ iconst0
    \/ \E v \in ByteValues : bipush(v)
    \/ \E v \in ByteValues : sipush(0, v)
    \/ iload0
    \/ \E reg \in SlotValues : iload(reg)
    \/ \E v \in IntValues : load_constant_integer(v)
    \/ \E v \in StringValues : load_constant(v)
    \/ istore0
    \/ iadd
    \/ \E l \in LabelNames : ifeq(l)
    \/ ireturn
    \/ invoke_static("Foo", "add", <<"Int", "Int">>, "Int")
    \/ DeclareLabel
    \/ Finish

SpecTypes == Init /\ [][NextTypes]_vars

\* An open assembler on which new_env was called SpentEnvs times, the most
\* the u16 counter holds.
SpentEnvs == U16 - 1

InitSpent ==
    /\ overflow_checks \in BOOLEAN
    /\ phase = "method"
    /\ panic = NoPanic
    /\ \E Pa \in {define_class(PoolStart(<<>>, <<>>), "Foo")} :
       \E P0 \in {define_class(Pa, "java/lang/Object")} :
       \E P1 \in {define_utf8(PoolStart(P0.constants, P0.first), "add")} :
       \E P2 \in {define_utf8(P1, method_signature(<<"Int", "Int">>, "Int"))} :
          /\ constants = P2.constants
          /\ this_class_index = Pa.ret
          /\ super_class_index = P0.ret
          /\ methods = <<>>
          /\ classfile = None
          /\ define_log = P2.log
          /\ first_define = P2.first
          /\ access_flags = ACC_STATIC
          /\ name_index = P1.ret
          /\ descriptor_index = P2.ret
    /\ max_stack_depth = 0
    /\ num_locals = 2
    /\ stack_types = <<>>
    /\ instructions = <<>>
    /\ stack_index = 0
    /\ labels = NoLabels /\ stack_frames = <<>> /\ last_stack_frame_index = None
    /\ label_log = <<>>
    /\ env_num = 0 /\ env_count = SpentEnvs /\ ret = SpentEnvs
    /\ preamble = [instr |-> 0, labels |-> 0, at |-> 0, dropped |-> 0, envs |-> SpentEnvs]

\* A fresh class builder, or the assembler that has used up its counter.
InitEnvs == Init \/ InitSpent

\* Environments, with the labels and branches that are keyed by them.
NextEnvs ==
    \/ (methods = <<>> /\ OpenMethod)
    \/ EnvOps
    \/ \E l \in LabelNames : goto(l)
    \/ DeclareLabel
    \/ Finish

SpecEnvs == InitEnvs /\ [][NextEnvs]_vars

\* Object construction.
NextNew ==
    \/ OpenMethod
    \/ \E c \in ClassNames \cup {"Bar"} : nyew(c)
    \/ iadd
    \/ Finish

SpecNew == Init /\ [][NextNew]_vars

\* Assemblers opened, used, finalized or dropped, one after the other.
NextWriter ==
    \/ OpenMethod
    \/ iadd
    \/ \E v \in IntValues : load_constant_integer(v)
    \/ DeclareLabel
    \/ drop
    \/ Finish

SpecWriter == Init /\ [][NextWriter]_vars

\* The define_* operations on names the pool does not hold yet.
NextDefine ==
    \/ OpenMethod
    \/ PoolOps
    \/ get_static("Bar", "g", "Int")
    \/ invoke_static("Bar", "sub", <<"Int", "Int">>, "Void")
    \/ Finish

SpecDefine == Init /\ [][NextDefine]_vars

---------------------------------------------------------------------------
(* A method that is already PadCount one-byte instructions long: the state *)
(* PadCount calls of iadd reach from a freshly opened method, after        *)
(* label("L") at offset 0 when `labelled`.  Frames 255, 256 and 257 bytes  *)
(* apart are within MaxInstr instructions of it.                           *)

PadCount == U8MAX - 2

InitFar ==
    /\ overflow_checks \in BOOLEAN
    /\ phase = "method"
    /\ panic = NoPanic
    /\ \E Pa \in {define_class(PoolStart(<<>>, <<>>), "Foo")} :
       \E P0 \in {define_class(Pa, "java/lang/Object")} :
       \E P1 \in {define_utf8(PoolStart(P0.constants, P0.first), "add")} :
       \E P2 \in {define_utf8(P1, method_signature(<<"Int", "Int">>, "Int"))} :
          /\ constants = P2.constants
          /\ this_class_index = Pa.ret
          /\ super_class_index = P0.ret
          /\ methods = <<>>
          /\ classfile = None
          /\ define_log = P2.log
          /\ first_define = P2.first
          /\ access_flags = ACC_STATIC
          /\ name_index = P1.ret
          /\ descriptor_index = P2.ret
    /\ max_stack_depth = 0
    /\ num_locals = 2
    /\ stack_types = <<>>
    /\ instructions = [i \in 1..PadCount |-> Ready(i - 1, Instr("Iadd", 0, 0))]
    /\ stack_index = PadCount
    /\ env_num = 0 /\ env_count = 0 /\ ret = 0
    /\ \E labelled \in BOOLEAN :
          /\ labels = IF labelled THEN Insert(NoLabels, LabelKey("L", 0), 0) ELSE NoLabels
          /\ stack_frames = IF labelled THEN <<SameFrame(0)>> ELSE <<>>
          /\ last_stack_frame_index = IF labelled THEN Some(0) ELSE None
          /\ label_log = IF labelled THEN <<0>> ELSE <<>>
          /\ preamble = [instr |-> PadCount, labels |-> IF labelled THEN 1 ELSE 0,
                          at |-> 0, dropped |-> 0, envs |-> 0]

SpecFar == InitFar /\ [][NextFrame]_vars

---------------------------------------------------------------------------
(* Branch resolution (C1 - C4).                                            *)

RECURSIVE ByteOffset(_, _)
\* The byte offset of the i-th emitted instruction: the sizes before it.
ByteOffset(irs, i) ==
    IF i = 1 THEN 0 ELSE ByteOffset(irs, i - 1) + size(irs[i - 1].instr)

Pending == {i \in 1..Len(instructions) : instructions[i].waiting}
Declared(i) == <<instructions[i].label, instructions[i].env>> \in DOMAIN labels
TargetOf(i) == labels[<<instructions[i].label, instructions[i].env>>]

\* A step of MethodBuilder::done: it returns (the method assembler is gone)
\* or it panics.
IsDoneStep ==
    /\ phase = "method"
    /\ phase' = "class" \/ (phase' = "panicked" /\ panic'.site = "done")
DoneReturns == phase = "method" /\ phase' = "class"

\* The i-th instruction of the method that done has just appended.
Finalized(i) == methods'[Len(methods')].attributes[1].code[i]

\* C1: a branch emitted at byte offset p to a label declared at t >= p is
\* finalized with operand t - p, the distance from the branch itself.
C1_ForwardBranchDelta ==
    [][DoneReturns =>
         \A i \in Pending :
            (Declared(i) /\ TargetOf(i) >= ByteOffset(instructions, i)) =>
                /\ Finalized(i).op = instructions[i].instr.op
                /\ Finalized(i).a = TargetOf(i) - ByteOffset(instructions, i)]_vars

\* A finalized method holds a forward branch that is not the first
\* instruction, so that its delta differs from the label's position.
C1_Witness ==
    \E k \in 1..Len(methods) :
        LET code == methods[k].attributes[1].code
        IN \E i \in 2..Len(code) :
              code[i].op \in BranchOps /\ code[i].a > 0 /\ code[i].a < U8MAX

\* C2: a branch to a label declared earlier (t < p) finalizes, with operand
\* (t - p) mod 2^16; done does not abort on the subtraction.
C2_BackwardBranchResolves ==
    [][(IsDoneStep /\ \A i \in Pending : Declared(i)) =>
         /\ phase' = "class"
         /\ \A i \in Pending :
               TargetOf(i) < ByteOffset(instructions, i) =>
                  Finalized(i).a = U16 + TargetOf(i) - ByteOffset(instructions, i)]_vars

\* C3: when a pending branch's (label, environment) has no recorded offset,
\* done fails with UnresolvedLabel and appends no method.
C3_UnresolvedLabelAborts ==
    [][(IsDoneStep /\ \E i \in Pending : ~Declared(i)) =>
         /\ phase' = "panicked"
         /\ panic'.kind = "UnresolvedLabel"
         /\ methods' = methods]_vars

\* The label of pending branch i is declared, but only in other environments.
DeclaredElsewhereOnly(i) ==
    /\ ~Declared(i)
    /\ \E key \in DOMAIN labels : key[1] = instructions[i].label

\* C4: a branch resolves only against the label declared in the environment
\* it was emitted in; a label of that name declared only in another
\* environment makes done fail with UnresolvedLabel.
C4_EnvironmentIsolation ==
    [][IsDoneStep =>
         /\ (\E i \in Pending : DeclaredElsewhereOnly(i)) =>
                (phase' = "panicked" /\ panic'.kind = "UnresolvedLabel")
         /\ phase' = "class" =>
                \A i \in Pending :
                    /\ Declared(i)
                    /\ Finalized(i).a =
                          (TargetOf(i) - ByteOffset(instructions, i)) % U16]_vars

---------------------------------------------------------------------------
(* The constant pool (C5, C6).                                             *)

\* C5: every define_* call after the first with the same value returns the
\* index the first call returned, and does not grow the pool.
C5_InterningIdempotent ==
    \A k \in 1..Len(define_log) :
        define_log[k].first # NoIndex =>
            /\ define_log[k].idx = define_log[k].first
            /\ define_log[k].grew = 0

\* C6: no two pool entries at different indices have the same variant and
\* the same payload.
C6_NoDuplicateConstants ==
    \A i, j \in 1..Len(constants) : i < j => constants[i] # constants[j]

---------------------------------------------------------------------------
(* Instruction offsets (C7).                                               *)

RECURSIVE TotalSize(_)
TotalSize(irs) == IF irs = <<>> THEN 0 ELSE size(Head(irs).instr) + TotalSize(Tail(irs))

OffsetsFollowSizes ==
    /\ instructions # <<>> => instructions[1].pos = 0
    /\ \A i \in 1..Len(instructions) - 1 :
          /\ size(instructions[i].instr) \in 1..3
          /\ instructions[i + 1].pos = instructions[i].pos + size(instructions[i].instr)
    /\ stack_index = TotalSize(instructions)

\* A step of an instruction-emitting call that returns.
EmitsInstruction ==
    /\ phase = "method" /\ phase' = "method"
    /\ stack_index' # stack_index \/ instructions' # instructions

AppendsOneInstruction ==
    /\ Len(instructions') = Len(instructions) + 1
    /\ SubSeq(instructions', 1, Len(instructions)) = instructions

---------------------------------------------------------------------------
(* Stack-map frames (C8 - C10).                                            *)

\* The byte distance between the i-th label declaration of the open method
\* and the one before it (method start for the first).
Distance(i) == label_log[i] - (IF i = 1 THEN 0 ELSE label_log[i - 1])

\* C8 as claimed: each frame's offset-delta is the byte distance since the
\* previous label declaration, or since method start for the first frame.
\* It is stated for the labels declared at least one byte after the previous
\* one, where label() computes the delta without u16 underflow.
C8_DeltaIsDistance ==
    /\ Len(stack_frames) = Len(label_log)
    /\ \A i \in 1..Len(stack_frames) :
          (i = 1 \/ Distance(i) > 0) => stack_frames[i].delta = Distance(i)

\* C8 as amended: the first frame's offset-delta is the byte distance since
\* method start; a later frame's is the byte distance since the previous
\* label declaration minus one, in u16 arithmetic.  At distance 0 a build
\* with overflow checks panics in label() and appends no frame; a build
\* without them records 65535.
C8_DeltaIsDistanceMinusOne ==
    /\ Len(stack_frames) = Len(label_log)
    /\ \A i \in 1..Len(stack_frames) :
          stack_frames[i].delta =
              IF i = 1 THEN Distance(1) ELSE (Distance(i) - 1) % U16
    /\ (phase = "panicked" /\ panic.site = "label") =>
          /\ overflow_checks
          /\ last_stack_frame_index = Some(stack_index)
    /\ (overflow_checks /\ phase = "method") =>
          \A i \in 2..Len(label_log) : Distance(i) > 0

\* A second label was declared some bytes after the first.
C8_Witness ==
    /\ phase = "method"
    /\ Len(stack_frames) = 2
    /\ Distance(2) > 1
    /\ Distance(1) > 0

DeltaOnly(f) == f.kind \in {"SameFrame", "SameFrameExtended"}

\* C9 as claimed: with no live type, a label exactly 256 bytes after the
\* previous frame yields the extended same-frame record, and the compact
\* record is chosen only when the byte distance fits in 8 bits.
C9_ExtendedAt256Bytes ==
    \A i \in 1..Len(stack_frames) :
        DeltaOnly(stack_frames[i]) =>
            /\ Distance(i) = U8MAX + 1 => stack_frames[i].kind = "SameFrameExtended"
            /\ stack_frames[i].kind = "SameFrame" => Distance(i) <= U8MAX

\* The offset-delta label() computes for the i-th declaration.
ExpectedDelta(i) == IF i = 1 THEN Distance(1) ELSE (Distance(i) - 1) % U16

\* C9 as amended: with no live type, a label whose offset-delta is 256 (the
\* first label 256 bytes after method start, a later label 257 bytes after
\* the previous one) yields the extended same-frame record, and the compact
\* record is chosen exactly when the offset-delta fits in 8 bits.
C9_ExtendedAtDelta256 ==
    \A i \in 1..Len(stack_frames) :
        DeltaOnly(stack_frames[i]) =>
            /\ stack_frames[i].delta = ExpectedDelta(i)
            /\ ExpectedDelta(i) = U8MAX + 1 => stack_frames[i].kind = "SameFrameExtended"
            /\ stack_frames[i].kind = "SameFrame" <=> ExpectedDelta(i) <= U8MAX

\* A label 257 bytes after the previous one got the extended record, and
\* the types were empty.
C9_Witness ==
    /\ Len(stack_frames) = 2
    /\ Distance(2) = U8MAX + 2
    /\ stack_frames[2] = SameFrameExtended(U8MAX + 1)
    /\ stack_types = <<>>

FrameKinds == {"SameFrame", "SameFrameExtended", "SameLocals1StackItemFrame",
               "SameLocals1StackItemFrameExtended"}

AllFrames ==
    {stack_frames[i] : i \in 1..Len(stack_frames)} \cup
    UNION {{methods[k].attributes[1].attributes[1].frames[i] :
               i \in 1..Len(methods[k].attributes[1].attributes[1].frames)} :
           k \in 1..Len(methods)}

\* A step of label() that returns: it appended a frame.
DeclaresLabel == Len(stack_frames') = Len(stack_frames) + 1

\* C10: every frame is SameFrame, SameFrameExtended,
\* SameLocals1StackItemFrame or SameLocals1StackItemFrameExtended; label()
\* appends a delta-only frame exactly when the tracked types are empty, and
\* otherwise a single-stack-item frame carrying the last recorded type.
C10_FrameKindSelection ==
    /\ [](\A f \in AllFrames : f.kind \in FrameKinds)
    /\ [][DeclaresLabel =>
            LET f == stack_frames'[Len(stack_frames')]
            IN /\ DeltaOnly(f) <=> stack_types = <<>>
               /\ DeltaOnly(f) => f.vtype = ""
               /\ stack_types # <<>> => f.vtype = stack_types[Len(stack_types)]]_vars

\* One method got a delta-only frame while no type was tracked and then,
\* after an integer push, an extended single-stack-item frame carrying Integer.
C10_Witness ==
    /\ Len(stack_frames) = 2
    /\ DeltaOnly(stack_frames[1])
    /\ stack_frames[2].kind = "SameLocals1StackItemFrameExtended"
    /\ stack_frames[2].vtype = "Integer"
    /\ stack_types # <<>>

---------------------------------------------------------------------------
(* A class builder whose pool is almost full, or filled to about the last  *)
(* index a LoadConstant operand can hold.                                  *)

\* Pool sizes the run starts from: two free indices left, and none.
PoolFill == {U16 - 3, U16 - 1}

\* Pool sizes around the last index a LoadConstant operand can hold.
WideFill == {U8MAX - 3, U8MAX - 1}

InitFilled(fills) ==
    /\ overflow_checks \in BOOLEAN
    /\ phase = "class"
    /\ panic = NoPanic
    /\ \E P1 \in {define_class(PoolStart(<<>>, <<>>), "Foo")} :
       \E P2 \in {define_class(P1, "java/lang/Object")} :
       \E fill \in fills :
          /\ preamble = [instr |-> 0, labels |-> 0, at |-> Len(P2.constants),
                          dropped |-> fill - Len(P2.constants), envs |-> 0]
          /\ constants = P2.constants
          /\ this_class_index = P1.ret
          /\ super_class_index = P2.ret
          /\ methods = <<>>
          /\ classfile = None
          /\ define_log = <<>>
          /\ first_define = P2.first
    /\ NoMethodBuilder

InitFull == InitFilled(PoolFill)

InitWide == InitFilled(WideFill)

SpecWide == InitWide /\ [][NextPool]_vars

\* Interning at the end of the index range, by the first method of the class.
NextFull ==
    \/ (methods = <<>> /\ OpenMethod)
    \/ \E v \in IntValues : load_constant_integer(v)
    \/ get_static("Foo", "f", "Int")
    \/ iadd
    \/ Finish

SpecFull == InitFull /\ [][NextFull]_vars

---------------------------------------------------------------------------
(* C11: one frame per label declaration.                                   *)

\* The stack-map table of the method the step finalized.
FinalizedFrames == methods'[Len(methods')].attributes[1].attributes[1].frames

AppendsOneFrame ==
    /\ Len(stack_frames') = Len(stack_frames) + 1
    /\ SubSeq(stack_frames', 1, Len(stack_frames)) = stack_frames

\* C11: every label() call that returns appends exactly one frame after the
\* frames already there (a redeclared name included), no other operation
\* of the open method touches the frames, finalize hands them over in
\* declaration order, and a method without label declarations gets an empty
\* stack-map table.
C11_OneFramePerLabel ==
    /\ [][(DeclareLabel /\ phase' = "method") => AppendsOneFrame]_vars
    /\ [][(phase = "method" /\ ~DeclareLabel /\ ~done)
             => stack_frames' = stack_frames]_vars
    /\ [][(done /\ phase' = "class") =>
             /\ Len(methods') = Len(methods) + 1
             /\ FinalizedFrames = stack_frames
             /\ Len(FinalizedFrames) = Len(label_log)
             /\ label_log = <<>> => FinalizedFrames = <<>>]_vars

\* A method without labels was finalized with an empty table, and in the
\* next method the same name was declared twice: two frames, one label.
C11_Witness ==
    /\ Len(methods) = 1
    /\ methods[1].attributes[1].code # <<>>
    /\ methods[1].attributes[1].attributes[1].frames = <<>>
    /\ Len(stack_frames) = 2
    /\ Cardinality(DOMAIN labels) = 1
    /\ phase = "method"

---------------------------------------------------------------------------
(* C12: pool indices stay in 1..65535.                                     *)

IsUtf8At(i, str) == i \in 1..Len(Pool) /\ Pool[i] = Utf8(str)

IsClassAt(i, name) ==
    /\ i \in 1..Len(Pool)
    /\ Pool[i].tag = "Class"
    /\ IsUtf8At(Pool[i].n, name)

IsNameAndTypeAt(i, name, descriptor) ==
    /\ i \in 1..Len(Pool)
    /\ Pool[i].tag = "NameAndType"
    /\ IsUtf8At(Pool[i].n, name)
    /\ IsUtf8At(Pool[i].m, descriptor)

\* The pool entry at index i is the constant the request asked for, with
\* the same payload (for a float, the same bits).
IsRequestedAt(i, req) ==
    /\ i \in 1..Len(Pool)
    /\ CASE req.kind = "utf8" -> Pool[i] = Utf8(req.s[1])
         [] req.kind = "integer" -> Pool[i] = Integer(req.n)
         [] req.kind = "float" ->
                Pool[i] = Float(F32(IF req.s[1] = "-" THEN 1 ELSE 0, req.n))
         [] req.kind = "class" -> IsClassAt(i, req.s[1])
         [] req.kind = "string" ->
                Pool[i].tag = "String" /\ IsUtf8At(Pool[i].n, req.s[1])
         [] req.kind = "name_and_type" -> IsNameAndTypeAt(i, req.s[1], req.s[2])
         [] req.kind \in {"fieldref", "methodref"} ->
                /\ Pool[i].tag = (IF req.kind = "fieldref" THEN "Fieldref"
                                       ELSE "Methodref")
                /\ IsClassAt(Pool[i].n, req.s[1])
                /\ IsNameAndTypeAt(Pool[i].m, req.s[2], req.s[3])

\* C12: the pool never holds more than 65535 entries (interning a new
\* constant into a pool of 65535 is fatal), and every index a define
\* operation returned is in 1..65535 and denotes the requested constant.
C12_IndexInRange ==
    /\ Len(Pool) <= U16 - 1
    /\ \A k \in 1..Len(define_log) :
          /\ define_log[k].idx \in 1..(U16 - 1)
          /\ IsRequestedAt(define_log[k].idx, define_log[k].req)

---------------------------------------------------------------------------
(* C13: load-constant operands fit in 8 bits.                              *)

LoadConstantOp ==
    \/ \E v \in StringValues : load_constant(v)
    \/ \E v \in IntValues : load_constant_integer(v)
    \/ \E v \in FloatValues : load_constant_float(v)

\* The index the operation's own define call returned (the last one logged).
InternedIndex == define_log'[Len(define_log')].idx

\* C13: a load-constant operation either fails, leaving the instructions
\* and the cursor as they were, or appends LoadConstant(index); it fails
\* whenever the interned index is above 255, and the 8-bit check fails
\* only then.
C13_LoadConstantNarrow ==
    [][LoadConstantOp =>
         /\ phase' \in {"method", "panicked"}
         /\ phase' = "panicked" =>
               /\ instructions' = instructions
               /\ stack_index' = stack_index
         /\ phase' = "method" =>
               /\ define_log' # <<>>
               /\ InternedIndex <= U8MAX
               /\ instructions' =
                     Append(instructions,
                            Ready(stack_index, Instr("LoadConstant", InternedIndex, 0)))
         /\ (phase' = "panicked" /\ panic'.kind = "ConstantIndexTooHigh") =>
               /\ define_log' # <<>>
               /\ InternedIndex > U8MAX]_vars

\* A constant interned at index 255 was loaded, and the load of the next
\* new constant, interned at 256, failed.
C13_Witness ==
    /\ phase = "panicked"
    /\ panic = [kind |-> "ConstantIndexTooHigh", site |-> "load_constant"]
    /\ Len(Pool) = U8MAX + 1
    /\ define_log[Len(define_log)].idx = U8MAX + 1
    /\ \E i \in 1..Len(instructions) :
          instructions[i].instr = Instr("LoadConstant", U8MAX, 0)

---------------------------------------------------------------------------
(* C14: the locals counter.                                                *)

StoreOpNames == {"Istore0", "Istore1", "Istore2", "Istore3", "Istore",
                 "Fstore0", "Fstore1", "Fstore2", "Fstore3", "Fstore",
                 "Astore0", "Astore1", "Astore2", "Astore3", "Astore"}

\* The instructions of a sequence whose opcode is in ops.
OpCount(seq, ops) == Cardinality({i \in 1..Len(seq) : seq[i].op \in ops})

\* The number of arguments of the signature a descriptor index denotes.
ArgCount(descriptor) ==
    Len(CHOOSE args \in ArgLists :
            \E r \in JavaTypes : Pool[descriptor] = Utf8(method_signature(args, r)))

\* C14 as claimed: the locals counter of the open method, and the max-locals
\* of every finalized method, is the argument count plus the number of
\* store instructions emitted (istore*, fstore*, astore*).
C14_LocalsCountStores ==
    /\ phase = "method" =>
          num_locals = ArgCount(descriptor_index)
                       + OpCount([i \in 1..Len(instructions) |-> instructions[i].instr],
                                 StoreOpNames)
    /\ \A k \in 1..Len(methods) :
          methods[k].attributes[1].max_locals =
              ArgCount(methods[k].descriptor_index)
              + OpCount(methods[k].attributes[1].code, StoreOpNames)

---------------------------------------------------------------------------
(* C15: the Method record of a finalized method.                           *)

\* The record the step appended.
NewMethod == methods'[Len(methods')]

\* C15: define_method fixes the access flags it is given and the name and
\* descriptor references its two define_utf8 calls return, no operation of the open method changes them, and a
\* successful done appends one Method record after the earlier ones, with
\* those three values and exactly one attribute: a Code attribute with an
\* empty exception table and exactly one nested attribute, the
\* StackMapTable holding the frames synthesized so far.
C15_MethodRecord ==
    /\ [][(OpenMethod /\ phase' = "method") =>
             /\ access_flags' = ACC_STATIC
             /\ name_index' = define_log'[1].idx
             /\ descriptor_index' = define_log'[2].idx]_vars
    /\ [][(phase = "method" /\ phase' = "method") =>
             UNCHANGED <<access_flags, name_index, descriptor_index>>]_vars
    /\ [][(done /\ phase' = "class") =>
             /\ Len(methods') = Len(methods) + 1
             /\ SubSeq(methods', 1, Len(methods)) = methods
             /\ NewMethod.access_flags = access_flags
             /\ NewMethod.name_index = name_index
             /\ NewMethod.descriptor_index = descriptor_index
             /\ Len(NewMethod.attributes) = 1
             /\ NewMethod.attributes[1].kind = "Code"
             /\ NewMethod.attributes[1].exception_table = <<>>
             /\ Len(NewMethod.attributes[1].attributes) = 1
             /\ NewMethod.attributes[1].attributes[1].kind = "StackMapTable"
             /\ NewMethod.attributes[1].attributes[1].frames = stack_frames]_vars

\* A second method was finalized, with frames, after the first.
C15_Witness ==
    /\ phase = "class"
    /\ Len(methods) = 2
    /\ methods[1].attributes[1].code # <<>>
    /\ methods[2].attributes[1].attributes[1].frames # <<>>

---------------------------------------------------------------------------
(* C16: the pool only grows.                                               *)

\* C16: every step leaves the entries the pool held at their indices: the
\* old pool is a prefix of the new pool, and the class file gets the pool
\* as it is.
C16_PoolOnlyGrows ==
    /\ [][/\ Len(Pool') >= Len(Pool)
          /\ SubSeq(Pool', 1, Len(Pool)) = Pool]_vars
    /\ [](classfile # None => classfile[1].constant_pool = Pool)

\* Method operations interned constants after those of ClassBuilder::new
\* and define_method, and the class was finalized with them.
C16_Witness ==
    /\ classfile # None
    /\ Len(classfile[1].constant_pool) > 8
    /\ IsClassAt(2, "Foo")
    /\ IsUtf8At(5, "add")

---------------------------------------------------------------------------
(* C17: no forward references in the pool.                                 *)

\* In pool cs, index j is an entry before index i, of the given kind.
RefersBack(cs, i, j, tag) == j \in 1..(i - 1) /\ cs[j].tag = tag

\* C17: every composite entry refers only to earlier entries of the
\* expected kind: Class and String to a Utf8, NameAndType to two Utf8,
\* Fieldref and Methodref to a Class and a NameAndType.
C17_NoForwardReferences ==
    \E cs \in {Pool} :
    \A i \in 1..Len(cs) :
        \/ cs[i].tag \in {"Utf8", "Integer", "Float"}
        \/ /\ cs[i].tag \in {"Class", "String"}
           /\ RefersBack(cs, i, cs[i].n, "Utf8")
        \/ /\ cs[i].tag = "NameAndType"
           /\ RefersBack(cs, i, cs[i].n, "Utf8")
           /\ RefersBack(cs, i, cs[i].m, "Utf8")
        \/ /\ cs[i].tag \in {"Fieldref", "Methodref"}
           /\ RefersBack(cs, i, cs[i].n, "Class")
           /\ RefersBack(cs, i, cs[i].m, "NameAndType")

---------------------------------------------------------------------------
(* Growth of the pool per define operation (C18).                          *)

\* The entries one define_* call of this kind can push: itself and the
\* entries its nested define_* calls push.
MaxGrowth(kind) ==
    CASE kind \in {"integer", "float", "utf8"} -> 1
      [] kind \in {"class", "string"} -> 2
      [] kind = "name_and_type" -> 3
      [] kind \in {"fieldref", "methodref"} -> 6

---------------------------------------------------------------------------
(* One assembler at a time (C19).                                          *)

\* The open assembler is still the same one after the step: its header is
\* unchanged and its instructions were only appended to.
SameAssembler ==
    /\ <<access_flags', name_index', descriptor_index'>>
           = <<access_flags, name_index, descriptor_index>>
    /\ Len(instructions') >= Len(instructions)
    /\ SubSeq(instructions', 1, Len(instructions)) = instructions

---------------------------------------------------------------------------
(* The names a class and its methods are opened with (C20).                *)

\* In pool cs, index i holds Utf8(str).
HoldsUtf8(cs, i, str) == i \in 1..Len(cs) /\ cs[i] = Utf8(str)

\* In pool cs, index i holds a Class entry whose name is Utf8(name).
HoldsClass(cs, i, name) ==
    /\ i \in 1..Len(cs)
    /\ cs[i].tag = "Class"
    /\ HoldsUtf8(cs, cs[i].n, name)

\* The method name and the descriptor text every method is opened with.
OpenedName == "add"
OpenedDescriptor == method_signature(<<"Int", "Int">>, "Int")

\* C20: the pool holds Utf8 and Class entries for the this-class and the
\* super-class name; this_class and super_class, in the builder and in the
\* finished class file, are indices of Class entries that resolve to those
\* names; the name and descriptor references of the open assembler and of
\* every Method record are indices of the Utf8 entries of the method name
\* and of its descriptor text.
C20_NamesInterned ==
    \E cs \in {Pool} :
        /\ \E i \in 1..4 : HoldsUtf8(cs, i, "Foo")
        /\ \E i \in 1..4 : HoldsUtf8(cs, i, "java/lang/Object")
        /\ HoldsClass(cs, this_class_index, "Foo")
        /\ HoldsClass(cs, super_class_index, "java/lang/Object")
        /\ classfile # None =>
              /\ classfile[1].constant_pool = cs
              /\ classfile[1].this_class = this_class_index
              /\ classfile[1].super_class = super_class_index
              /\ classfile[1].methods = methods
        /\ phase = "method" =>
              /\ HoldsUtf8(cs, name_index, OpenedName)
              /\ HoldsUtf8(cs, descriptor_index, OpenedDescriptor)
        /\ \A k \in 1..Len(methods) :
              /\ HoldsUtf8(cs, methods[k].name_index, OpenedName)
              /\ HoldsUtf8(cs, methods[k].descriptor_index, OpenedDescriptor)

---------------------------------------------------------------------------
(* What is left pending, and what finalization rewrites (C21, C22).        *)

\* C21: every pending instruction is one of the 13 branch variants, the
\* ones fill_offset rewrites, and no operation ever panics because
\* fill_offset was given another variant.
C21_PendingAreBranches ==
    /\ \A i \in Pending : CanFill(instructions[i].instr)
    /\ \A i \in 1..Len(instructions) :
          ResolveOutcome(instructions[i]) # "UnpatchableInstructionShape"
    /\ panic.kind # "UnpatchableInstructionShape"

\* A finalized method holds a rewritten conditional branch and a rewritten
\* goto: fill_offset ran on both and done returned.
C21_Witness ==
    \E k \in 1..Len(methods) :
        LET code == methods[k].attributes[1].code
        IN /\ \E i \in 1..Len(code) : code[i].op = "IfIcmpEq" /\ code[i].a > 0
           /\ \E i \in 1..Len(code) : code[i].op = "Goto" /\ code[i].a > 0

\* C22: a pending branch holds the placeholder 0 until done; the code done
\* produces has one instruction per emitted instruction, in the same order;
\* an instruction that was not pending is the one emitted; a branch keeps
\* its variant, its size and every field but the offset operand.
C22_OnlyBranchOperandsChange ==
    /\ [](\A i \in Pending : instructions[i].instr.a = 0)
    /\ [][DoneReturns =>
             /\ Len(methods'[Len(methods')].attributes[1].code) = Len(instructions)
             /\ \A i \in 1..Len(instructions) :
                   IF i \in Pending
                   THEN /\ Finalized(i).op = instructions[i].instr.op
                        /\ Finalized(i).op \in BranchOps
                        /\ Finalized(i).b = instructions[i].instr.b
                        /\ size(Finalized(i)) = size(instructions[i].instr)
                        /\ Finalized(i).a \in 0..(U16 - 1)
                   ELSE Finalized(i) = instructions[i].instr]_vars

\* A finalized method holds, in the order emitted, an instruction with an
\* operand-free variant and after it a branch whose operand was rewritten.
C22_Witness ==
    \E k \in 1..Len(methods) :
        LET code == methods[k].attributes[1].code
        IN \E i \in 1..Len(code) : \E j \in (i + 1)..Len(code) :
              /\ code[i] = Instr("Iconst0", 0, 0)
              /\ code[j].op = "IfIcmpEq" /\ code[j].a # 0

---------------------------------------------------------------------------
(* The recorded verification types and the stack depth (C23, C24).         *)

IntegerOps == {"IconstM1", "Iconst0", "Iconst1", "Iconst2", "Iconst3", "Iconst4",
               "Iconst5", "Bipush", "Sipush", "Iload0", "Iload1", "Iload2",
               "Iload3", "Iload"}

\* The i-th emitted instruction of the open method came from an operation
\* that produces an integer; a LoadConstant did when the entry it names is
\* an Integer.
ProducesInteger(cs, i) ==
    \/ instructions[i].instr.op \in IntegerOps
    \/ /\ instructions[i].instr.op = "LoadConstant"
       /\ instructions[i].instr.a \in 1..Len(cs)
       /\ cs[instructions[i].instr.a].tag = "Integer"

IntegerIssued == \E cs \in {Pool} : \E i \in 1..Len(instructions) : ProducesInteger(cs, i)

\* C23: no operation of an open method removes a recorded type; a label
\* declared after an integer-producing operation of the method yields a
\* single-stack-item frame carrying Integer, and a label declared before
\* the first one yields a delta-only frame.
C23_TypesNeverShrink ==
    /\ [][(phase = "method" /\ phase' = "method") =>
             /\ Len(stack_types') >= Len(stack_types)
             /\ SubSeq(stack_types', 1, Len(stack_types)) = stack_types]_vars
    /\ [][DeclaresLabel =>
             LET frame == stack_frames'[Len(stack_frames')]
             IN IF IntegerIssued
                THEN /\ frame.kind \in {"SameLocals1StackItemFrame",
                                        "SameLocals1StackItemFrameExtended"}
                     /\ frame.vtype = "Integer"
                ELSE DeltaOnly(frame)]_vars

\* One method holds a delta-only frame and then, declared after an integer
\* was produced and consumed again, a single-stack-item frame.
C23_Witness ==
    /\ Len(stack_frames) = 2
    /\ DeltaOnly(stack_frames[1])
    /\ stack_frames[2] = SameLocals1StackItemFrame(1, "Integer")
    /\ Len(instructions) >= 2
    /\ instructions[Len(instructions)].instr.op \in {"Iadd", "Istore0", "IfEq", "IReturn",
                                                      "InvokeStatic"}

\* C24: the tracked maximum stack depth of an open method is 0 whatever was
\* emitted, and the Code attribute of every finalized method, in the
\* builder and in the class file, has max_stack 0.
C24_MaxStackZero ==
    /\ max_stack_depth = 0
    /\ \A k \in 1..Len(methods) : methods[k].attributes[1].max_stack = 0
    /\ classfile # None =>
          \A k \in 1..Len(classfile[1].methods) :
              classfile[1].methods[k].attributes[1].max_stack = 0

\* A finalized method whose code pushes two integers one after the other
\* and so needs two stack slots.
C24_Witness ==
    \E k \in 1..Len(methods) :
        LET code == methods[k].attributes[1].code
        IN /\ Len(code) >= 2
           /\ code[1].op \in IntegerOps
           /\ code[2].op \in IntegerOps
           /\ methods[k].attributes[1].max_stack = 0

---------------------------------------------------------------------------
(* Environment numbers (C25).                                              *)

\* The numbers the new_env / set_new_env calls made so far on the open
\* assembler have returned, with the number of the initial environment:
\* each call returns the counter after its increment.
NumbersInUse == 0..env_count

\* C25: a new assembler is in environment 0; a new_env or set_new_env call
\* that returns gives a number other than 0 and other than every number
\* returned before; new_env keeps the active environment, set_new_env and
\* set_env make the returned and the given number active; label() and the
\* branch operations key on the active environment.
C25_FreshEnvironments ==
    /\ [][(OpenMethod /\ phase' = "method") => env_num' = 0]_vars
    /\ [][(new_env /\ phase' = "method") =>
             (ret' \notin NumbersInUse /\ env_num' = env_num)]_vars
    /\ [][(set_new_env /\ phase' = "method") =>
             (ret' \notin NumbersInUse /\ env_num' = ret')]_vars
    /\ [][\A n \in 0..MaxEnvs : set_env(n) => env_num' = n]_vars
    /\ [][DeclaresLabel =>
             \E l \in LabelNames :
                /\ LabelKey(l, env_num) \in DOMAIN labels'
                /\ labels'[LabelKey(l, env_num)] = stack_index]_vars
    /\ [][(phase = "method" /\ Len(instructions') = Len(instructions) + 1) =>
             (instructions'[Len(instructions')].waiting =>
                 instructions'[Len(instructions')].env = env_num)]_vars

---------------------------------------------------------------------------
(* The offset arithmetic of label() (C26).                                 *)

\* The offset-delta as a number, before it is stored in a u16.
ExactDelta ==
    IF last_stack_frame_index = None THEN stack_index
    ELSE stack_index - last_stack_frame_index[1] - 1

\* C26: every label() call returns and appends a frame, and the frame's
\* offset-delta is the exact value of the subtraction, which is in
\* 0..65535: no underflow, also when the previous label was declared at the
\* same cursor.
C26_LabelNeverUnderflows ==
    [][DeclareLabel =>
          /\ phase' = "method"
          /\ AppendsOneFrame
          /\ ExactDelta \in 0..(U16 - 1)
          /\ stack_frames'[Len(stack_frames')].delta = ExactDelta]_vars

---------------------------------------------------------------------------
(* The operand bytes of New (C27).                                         *)

\* C27: nyew(class) emits a New instruction whose operand bytes hi and lo
\* give the index define_class returned: hi * 256 + lo is that index.
C27_NewOperandIsClassIndex ==
    [][((\E c \in ClassNames \cup {"Bar"} : nyew(c)) /\ phase' = "method") =>
          LET emitted == instructions'[Len(instructions')].instr
              class_index == define_log'[Len(define_log')].idx
          IN /\ emitted.op = "New"
             /\ emitted.a \in 0..U8MAX /\ emitted.b \in 0..U8MAX
             /\ emitted.a * 256 + emitted.b = class_index]_vars

---------------------------------------------------------------------------
(* Redeclared labels (C28).                                                *)

\* C28: a label() call maps its (name, environment) to the cursor of this
\* call, whether or not the name was declared there before, and leaves
\* every other entry as it was; a call that returns appends its own frame;
\* when done returns, every pending branch, emitted before or after the
\* last declaration of its label, holds the distance to the offset the
\* table maps the label to.
C28_LastDeclarationWins ==
    /\ [][\A l \in LabelNames : label(l) =>
             /\ DOMAIN labels' = DOMAIN labels \cup {LabelKey(l, env_num)}
             /\ labels'[LabelKey(l, env_num)] = stack_index
             /\ \A key \in DOMAIN labels \ {LabelKey(l, env_num)} :
                   labels'[key] = labels[key]
             /\ phase' = "method" => AppendsOneFrame]_vars
    /\ [][(phase = "method" /\ phase' = "method" /\ ~DeclareLabel) =>
             labels' = labels]_vars
    /\ [][DoneReturns =>
             \A i \in Pending :
                Finalized(i).a = (labels[LabelKey(instructions[i].label,
                                                  instructions[i].env)]
                                  - ByteOffset(instructions, i)) % U16]_vars

\* A label was declared twice in one environment, at two cursors, each
\* declaration with its frame; a branch to it was emitted before the second
\* declaration, and the table holds the second cursor.
C28_Witness ==
    /\ phase = "method"
    /\ Len(label_log) = 2 /\ label_log[1] < label_log[2]
    /\ Len(stack_frames) = 2
    /\ DOMAIN labels = {LabelKey("L", 0)}
    /\ labels[LabelKey("L", 0)] = label_log[2]
    /\ \E i \in Pending :
          /\ instructions[i].label = "L" /\ instructions[i].env = 0
          /\ instructions[i].pos < label_log[2]

===========================================================================
